---- MODULE Spec2Model ----
(***************************************************************************)
(* The moist-adiabat integrator of metpy/vis/skewt.py (calc_moist_adiabat  *)
(* and moist_lapserate) as a state machine.                                *)
(*                                                                         *)
(* numpy's float64 is modelled by a decimal floating-point number with a   *)
(* five-digit significand, m * 10^e with m = 0 or 10000 <= |m| <= 99999,   *)
(* together with the IEEE special values +inf, -inf and nan.  Every        *)
(* operation rounds to nearest, overflows to an infinity, underflows to    *)
(* zero and follows the IEEE rules for the special values (x/0 = inf,      *)
(* 0/0 = inf - inf = inf/inf = 0*inf = nan): numpy scalars warn on these   *)
(* and continue, they do not raise.  Every numeric constant of the source  *)
(* has at most five significant digits and is exact in the model.          *)
(***************************************************************************)
EXTENDS Integers, Sequences, FiniteSets, TLC

VARIABLES
    pc,      \* position of the current calc_moist_adiabat invocation
    Tref,    \* argument Tref
    P,       \* argument P, the caller's array object (passed by reference)
    T,       \* the profile buffer
    uP,      \* the "upward" pressure column
    dP,      \* the layer pressure thicknesses
    n,       \* the loop variable
    ret,     \* the returned array (<<>> until the call returns)
    err,     \* the exception raised ("" when none)
    Pin,     \* history: the contents of P when the call was made
    atP,     \* history: the pressure each element of T was paired with
    writes,  \* history: the indices of T written by this call, in order
    reads,   \* history: <<n, i>> for each read of T[i] by layer step n
    allocs,  \* history: number of buffers allocated by this call
    steps,   \* history: number of completed layer steps of this call
    evals,   \* history: number of moist_lapserate evaluations of this call
    sing,    \* history: the mixing-ratio denominator was <= 0 in this call
    nonfin,  \* history: first layer with a non-finite rho, Dz or T (0: none)
    prev,    \* a result the caller kept from an earlier call
    lw,      \* moist_lapserate harness: argument w
    lT,      \* moist_lapserate harness: argument T
    lGamma,  \* moist_lapserate harness: the value returned
    lpc,     \* moist_lapserate harness: position
    frames,  \* the frames of two calc_moist_adiabat invocations in progress
    heap,    \* the numpy arrays those frames refer to, by address
    wc,      \* windchill harness: arguments, position and result
    gr,      \* convergence/vorticity harness: arguments, position, results
    mg,      \* meteogram: arguments, position, locals and the plot built
    sk       \* plot_skewt: arguments, position, locals and the curves built

vars == <<pc, Tref, P, T, uP, dP, n, ret, err, Pin, atP, writes, reads, allocs,
          steps, evals, sing, nonfin, prev, lw, lT, lGamma, lpc, frames,
          heap, wc, gr, mg, sk>>

callVars == <<pc, Tref, P, T, uP, dP, n, ret, err, Pin, atP, writes, reads,
              allocs, steps, evals, sing, nonfin>>

lapseVars == <<lw, lT, lGamma, lpc>>

parVars == <<frames, heap>>

otherVars == <<frames, heap, wc, gr, mg, sk>>

----------------------------------------------------------------------------
(* float64 arithmetic *)

\* largest decimal exponent of a finite float64 (1.8e308)
EMax == 308

\* smallest decimal exponent of a non-zero float64 (4.9e-324)
EMin == -324

Pow10(k) ==
    CASE k = 0 -> 1
      [] k = 1 -> 10
      [] k = 2 -> 100
      [] k = 3 -> 1000
      [] k = 4 -> 10000
      [] k = 5 -> 100000
      [] k = 6 -> 1000000
      [] k = 7 -> 10000000
      [] k = 8 -> 100000000
      [] OTHER -> 1000000000

Abs(i) == IF i < 0 THEN -i ELSE i

Sgn(i) == IF i < 0 THEN -1 ELSE 1

NDigits(a) ==
    CASE a < 10 -> 1
      [] a < 100 -> 2
      [] a < 1000 -> 3
      [] a < 10000 -> 4
      [] a < 100000 -> 5
      [] a < 1000000 -> 6
      [] a < 10000000 -> 7
      [] a < 100000000 -> 8
      [] a < 1000000000 -> 9
      [] OTHER -> 10

Fin(m, e) == [k |-> "fin", m |-> m, e |-> e]

Zero == Fin(0, 0)

Inf(s) == [k |-> "inf", m |-> s, e |-> 0]

NaN == [k |-> "nan", m |-> 0, e |-> 0]

\* a normalised significand with its exponent, brought into float64's range
Range(m, e) ==
    IF e + 4 > EMax THEN Inf(Sgn(m))
    ELSE IF e + 4 < EMin THEN Zero
    ELSE Fin(m, e)

\* the float nearest to the integer M times 10^E, M and E given as values
RoundV(M, E) ==
    IF M = 0 THEN Zero
    ELSE LET a == Abs(M)
             nd == NDigits(a)
         IN  IF nd <= 5
             THEN Range(M * Pow10(5 - nd), E - (5 - nd))
             ELSE LET sh == nd - 5
                      q == (a + (Pow10(sh) \div 2)) \div Pow10(sh)
                  IN  IF q = 100000
                      THEN Range(Sgn(M) * 10000, E + sh + 1)
                      ELSE Range(Sgn(M) * q, E + sh)

\* the float nearest to the integer M times 10^E
Round(M, E) == CHOOSE z \in {RoundV(a, b) : a \in {M}, b \in {E}} : TRUE

\* the float literal m * 10^e
Flt(m, e) == Round(m, e)

IsFinite(x) == x.k = "fin"

IsNaN(x) == x.k = "nan"

\* Each operation evaluates its operands once, as numpy does, and then
\* applies OpV to the values: {OpV(a, b) : a \in {x}, b \in {y}} is the set
\* of its one result.

NegV(x) ==
    CASE x.k = "fin" -> Fin(-x.m, x.e)
      [] x.k = "inf" -> Inf(-x.m)
      [] OTHER -> NaN

\* -x
FNeg(x) == CHOOSE z \in {NegV(a) : a \in {x}} : TRUE

\* x + y for finite non-zero x, y with x.e >= y.e
AddAligned(x, y) ==
    LET d == x.e - y.e
    IN  IF d <= 4 THEN Round(x.m * Pow10(d) + y.m, y.e)
        ELSE IF d <= 9
             THEN Round(x.m * 10000 + Sgn(y.m) * (Abs(y.m) \div Pow10(d - 4)),
                        x.e - 4)
             ELSE x

AddV(x, y) ==
    CASE x.k = "nan" \/ y.k = "nan" -> NaN
      [] x.k = "inf" /\ y.k = "inf" -> IF x.m = y.m THEN x ELSE NaN
      [] x.k = "inf" -> x
      [] y.k = "inf" -> y
      [] OTHER -> IF x.m = 0 THEN y
                  ELSE IF y.m = 0 THEN x
                  ELSE IF x.e >= y.e THEN AddAligned(x, y)
                  ELSE AddAligned(y, x)

\* x + y
FAdd(x, y) == CHOOSE z \in {AddV(a, b) : a \in {x}, b \in {y}} : TRUE

\* x - y
FSub(x, y) == FAdd(x, FNeg(y))

MulV(x, y) ==
    CASE x.k = "nan" \/ y.k = "nan" -> NaN
      [] x.k = "inf" /\ y.k = "inf" -> Inf(x.m * y.m)
      [] x.k = "inf" -> IF y.m = 0 THEN NaN ELSE Inf(x.m * Sgn(y.m))
      [] y.k = "inf" -> IF x.m = 0 THEN NaN ELSE Inf(y.m * Sgn(x.m))
      [] OTHER -> IF x.m = 0 \/ y.m = 0 THEN Zero
                  ELSE LET a == Abs(x.m)
                           b == Abs(y.m)
                           \* the product a*b without its last two digits
                           M == a * (b \div 100) + ((a * (b % 100)) \div 100)
                       IN  Round(Sgn(x.m) * Sgn(y.m) * M, x.e + y.e + 2)

\* x * y
FMul(x, y) == CHOOSE z \in {MulV(a, b) : a \in {x}, b \in {y}} : TRUE

DivV(x, y) ==
    CASE x.k = "nan" \/ y.k = "nan" -> NaN
      [] x.k = "inf" /\ y.k = "inf" -> NaN
      [] x.k = "inf" -> Inf(x.m * Sgn(y.m))
      [] y.k = "inf" -> Zero
      [] OTHER -> IF y.m = 0
                  THEN (IF x.m = 0 THEN NaN ELSE Inf(Sgn(x.m)))
                  ELSE IF x.m = 0 THEN Zero
                  ELSE LET a == Abs(x.m)
                           b == Abs(y.m)
                           q1 == (a * 10000) \div b
                           r1 == (a * 10000) % b
                           q2 == (r1 * 100) \div b
                       IN  Round(Sgn(x.m) * Sgn(y.m) * (q1 * 100 + q2),
                                 x.e - y.e - 6)

\* x / y
FDiv(x, y) == CHOOSE z \in {DivV(a, b) : a \in {x}, b \in {y}} : TRUE

IsNegative(d) == d.k # "nan" /\ d.m < 0

\* x < y; false when either is nan
FLt(x, y) == \E d \in {FSub(x, y)} : IsNegative(d)

EqV(x, y) == x.k # "nan" /\ y.k # "nan" /\ x = y

\* x == y; false when either is nan
FEq(x, y) == \E a \in {x}, b \in {y} : EqV(a, b)

\* x <= y; false when either is nan
FLe(x, y) == \E a \in {x}, b \in {y} : FLt(a, b) \/ EqV(a, b)

FromInt(i) == Round(i, 0)

\* the integer nearest to a finite x, |x| < 10^4
ToInt(x) ==
    IF x.m = 0 THEN 0
    ELSE IF x.e >= 0 THEN x.m * Pow10(x.e)
    ELSE IF x.e < -9 THEN 0
    ELSE Sgn(x.m) * ((Abs(x.m) + (Pow10(-x.e) \div 2)) \div Pow10(-x.e))

Ln10 == Fin(23026, -4)

One == Fin(10000, -4)

RECURSIVE ExpSeries(_, _)
\* 1 + r/i * (1 + r/(i+1) * (1 + ... )), the Taylor series of exp from term i
ExpSeries(r, i) ==
    IF i > 12 THEN One
    ELSE FAdd(One, FMul(FDiv(r, FromInt(i)), ExpSeries(r, i + 1)))

\* s * 10^q for a finite non-zero s
Scale10(s, q) == CHOOSE z \in {Range(a.m, a.e + q) : a \in {s}} : TRUE

\* exp(x) = 10^q * exp(x - q*ln(10)) for q the integer nearest to x/ln(10)
ExpReduced(x, q) ==
    CHOOSE z \in {Scale10(ExpSeries(r, 1), q) :
                     r \in {FSub(x, FMul(FromInt(q), Ln10))}} : TRUE

ExpV(x) ==
    CASE x.k = "nan" -> NaN
      [] x.k = "inf" -> IF x.m > 0 THEN Inf(1) ELSE Zero
      [] OTHER ->
           IF FLt(Fin(70978, -2), x) THEN Inf(1)
           ELSE IF FLt(x, Fin(-74513, -2)) THEN Zero
           ELSE CHOOSE z \in {ExpReduced(x, ToInt(d)) :
                                 d \in {FDiv(x, Ln10)}} : TRUE

\* np.exp(x)
FExp(x) == CHOOSE z \in {ExpV(a) : a \in {x}} : TRUE

----------------------------------------------------------------------------
(* the lapse-rate model and the formulas of a layer step *)

g == Flt(981, -2)

Cp == Flt(1004, 0)

Rd == Flt(287, 0)

Rv == Flt(46151, -2)

epsilon == FDiv(Rd, Rv)

T0 == Flt(27315, -2)

\* Lv_func = lambda T: 2.5e6 - 2500.0 * T
Lv_func(Tc) == FSub(Flt(25, 5), FMul(Flt(2500, 0), Tc))

\* moist_lapserate with the sign of the latent-heat term of the denominator
\* slipped
moist_lapserate_minus(w, Tc) ==
    LET TK == FAdd(Tc, T0)
        Lv == Lv_func(Tc)
        A == FDiv(FMul(Lv, w), FMul(Rd, TK))
    IN  FDiv(FMul(g, FAdd(One, A)),
             FSub(Cp, FDiv(FMul(FMul(Lv, epsilon), A), TK)))

\* moist_lapserate that leaves the factor A out of the denominator
moist_lapserate_noA(w, Tc) ==
    LET TK == FAdd(Tc, T0)
        Lv == Lv_func(Tc)
        A == FDiv(FMul(Lv, w), FMul(Rd, TK))
    IN  FDiv(FMul(g, FAdd(One, A)),
             FAdd(Cp, FDiv(FMul(Lv, epsilon), TK)))

\* g * (1 + A) / (Cp + Lv * epsilon * A / TK), A = Lv * w / (Rd*TK)
moist_lapserate(w, Tc) ==
    LET TK == FAdd(Tc, T0)
        Lv == Lv_func(Tc)
        A == FDiv(FMul(Lv, w), FMul(Rd, TK))
    IN  FDiv(FMul(g, FAdd(One, A)),
             FAdd(Cp, FDiv(FMul(FMul(Lv, epsilon), A), TK)))

\* wv_sat = 6.112 * np.exp(17.67 * T / (243.5 + T))
wv_sat(Tc) ==
    FMul(Flt(6112, -3),
         FExp(FDiv(FMul(Flt(1767, -2), Tc), FAdd(Flt(2435, -1), Tc))))

\* w = epsilon * wv_sat / (P - wv_sat)
MixingRatio(es, Pl) == FDiv(FMul(epsilon, es), FSub(Pl, es))

\* Tv = (T + T0) * (1 + ((1-epsilon)/epsilon) * w)
VirtualTemp(Tc, w) ==
    FMul(FAdd(Tc, T0),
         FAdd(One, FMul(FDiv(FSub(One, epsilon), epsilon), w)))

\* rho = P / (Rd * Tv)
Density(Pl, Tv) == FDiv(Pl, FMul(Rd, Tv))

\* Dz = dP / rho / g
Thickness(dp, rho) == FDiv(FDiv(dp, rho), g)

\* the second part of a half step: Dz from rho, then T[n] = T[n-1] - Gamma * Dz
LayerTop(es, w, rho, Gamma, Pl, dp, Tb) ==
    CHOOSE r \in {[es |-> es, den |-> FSub(Pl, es), w |-> w, rho |-> rho,
                   Dz |-> Dz, Gamma |-> Gamma,
                   Tn |-> FSub(Tb, FMul(Gamma, Dz))] :
                      Dz \in {Thickness(dp, rho)}} : TRUE

\* the middle part of a half step: Tv, rho and Gamma from the mixing ratio w
LayerAir(es, w, Tc, Pl, dp, Tb) ==
    CHOOSE r \in {LayerTop(es, w, rho, Gamma, Pl, dp, Tb) :
                      rho \in {Density(Pl, VirtualTemp(Tc, w))},
                      Gamma \in {moist_lapserate(w, Tc)}} : TRUE

\* the first part of a half step: w from the saturation pressure wv_sat
LayerVapor(es, Tc, Pl, dp, Tb) ==
    CHOOSE r \in {LayerAir(es, w, Tc, Pl, dp, Tb) :
                      w \in {MixingRatio(es, Pl)}} : TRUE

\* the values one half (predictor or corrector) of a layer step computes from
\* the temperature and pressure it uses, the layer's dP and the temperature
\* Tb at the bottom of the layer; each value is computed once, in the order of
\* the statements
LayerValues(Tc, Pl, dp, Tb) ==
    CHOOSE r \in {LayerVapor(es, Tc, Pl, dp, Tb) : es \in {wv_sat(Tc)}} : TRUE

\* x <= 0
NonPositive(x) == x.k # "nan" /\ x.m <= 0

Reverse(s) == [i \in 1..Len(s) |-> s[Len(s) + 1 - i]]

----------------------------------------------------------------------------
(* state machine of calc_moist_adiabat and of its callers *)

\* largest number of levels of a pressure column
MaxLen == 3

\* largest number of levels of a pressure column a caller compares results on
MaxLenH == 3

\* largest decimal exponent of a mixing ratio handed to moist_lapserate
MaxWExp == 6

\* reference temperatures (deg C)
TrefSet == {Flt(-60, 0), Zero, Flt(20, 0), Flt(40, 0)}

\* pressures (hPa); 6.112 hPa is the saturation vapor pressure at 0 deg C
PSet == {Flt(1000, 0), Flt(700, 0), Flt(50, 0), Flt(6112, -3), Flt(5, 0)}

TrefSetH == {Flt(20, 0), Flt(-60, 0)}

PSetH == {Flt(1000, 0), Flt(700, 0)}

\* atmospheric reference temperatures (deg C), the range of a skew-T plot
TrefPhys == {Flt(-60, 0), Flt(-30, 0), Zero, Flt(20, 0), Flt(40, 0)}

\* atmospheric pressures (hPa), the range of a skew-T plot
PPhys == {Flt(1050, 0), Flt(1001, 0), Flt(1000, 0), Flt(700, 0), Flt(500, 0),
          Flt(100, 0), Flt(74, 0), Flt(60, 0), Flt(50, 0)}

Columns(S, maxlen) == UNION {[1..k -> S] : k \in 0..maxlen}

StrictlyDecreasing(s) == \A i \in 1..(Len(s) - 1) : FLt(s[i + 1], s[i])

StrictlyIncreasing(s) == \A i \in 1..(Len(s) - 1) : FLt(s[i], s[i + 1])

StrictlyMonotonic(s) == StrictlyDecreasing(s) \/ StrictlyIncreasing(s)

DecreasingColumns(S, maxlen) ==
    {c \in Columns(S, maxlen) : Len(c) >= 2 /\ StrictlyDecreasing(c)}

\* largest number of later calls counted for a result the caller kept
MaxAge == 2

NoResult ==
    [set |-> FALSE, Tref |-> Zero, P |-> <<>>, ret |-> <<>>, age |-> 0]

\* the harnesses of the other functions are not in use
OtherOff ==
    /\ frames = <<>>
    /\ heap = <<>>
    /\ wc = [pc |-> "off"]
    /\ gr = [pc |-> "off"]
    /\ mg = [pc |-> "off"]
    /\ sk = [pc |-> "off"]

Init ==
    /\ pc = "idle"
    /\ Tref = Zero
    /\ P = <<>>
    /\ T = <<>>
    /\ uP = <<>>
    /\ dP = <<>>
    /\ n = 0
    /\ ret = <<>>
    /\ err = ""
    /\ Pin = <<>>
    /\ atP = <<>>
    /\ writes = <<>>
    /\ reads = <<>>
    /\ allocs = 0
    /\ steps = 0
    /\ evals = 0
    /\ sing = FALSE
    /\ nonfin = 0
    /\ prev = NoResult
    /\ lw = Zero
    /\ lT = Zero
    /\ lGamma = Zero
    /\ lpc = "off"
    /\ OtherOff

\* the frame of calc_moist_adiabat(t, c) at entry: nothing bound yet
Enter(t, c) ==
    /\ Tref' = t
    /\ P' = c
    /\ Pin' = c
    /\ pc' = "alloc"
    /\ T' = <<>>
    /\ uP' = <<>>
    /\ dP' = <<>>
    /\ n' = 0
    /\ ret' = <<>>
    /\ err' = ""
    /\ atP' = <<>>
    /\ writes' = <<>>
    /\ reads' = <<>>
    /\ allocs' = 0
    /\ steps' = 0
    /\ evals' = 0
    /\ sing' = FALSE
    /\ nonfin' = 0
    /\ prev' = IF prev.set /\ prev.age < MaxAge
               THEN [prev EXCEPT !.age = prev.age + 1]
               ELSE prev

\* calc_moist_adiabat(t, c) is entered: a fresh frame, nothing bound yet
Invoke(t, c) ==
    /\ Enter(t, c)
    /\ UNCHANGED <<lapseVars, otherVars>>

\* a call by any caller, or by one that passes a decreasing column of
\* atmospheric pressures as plot_skewt does
Call ==
    /\ pc = "idle"
    /\ \E a \in (TrefSet \X Columns(PSet, MaxLen))
                   \cup (TrefPhys \X DecreasingColumns(PPhys, MaxLen)) :
          Invoke(a[1], a[2])

\* one of the calls of a caller that calls again and again
CallH ==
    /\ pc \in {"idle", "done", "raised"}
    /\ \E a \in TrefSetH \X Columns(PSetH, MaxLenH) : Invoke(a[1], a[2])

\* T = np.zeros(P.shape)
Alloc ==
    /\ pc = "alloc"
    /\ T' = [i \in 1..Len(P) |-> Zero]
    /\ atP' = [i \in 1..Len(P) |-> Zero]
    /\ allocs' = allocs + 1
    /\ pc' = "seed"
    /\ UNCHANGED <<Tref, P, uP, dP, n, ret, err, Pin, writes, steps, evals,
                   sing, nonfin, prev, lapseVars, otherVars,
                   reads>>

\* T[0] = Tref; IndexError on an array of size 0
Seed ==
    /\ pc = "seed"
    /\ IF Len(T) = 0
       THEN /\ pc' = "raised"
            /\ err' = "IndexError"
            /\ UNCHANGED <<T, writes>>
       ELSE /\ T' = [T EXCEPT ![1] = Tref]
            /\ writes' = Append(writes, 0)
            /\ pc' = "dir"
            /\ err' = err
    /\ UNCHANGED <<Tref, P, uP, dP, n, ret, Pin, atP, allocs, steps, evals,
                   sing, nonfin, prev, lapseVars, otherVars,
                   reads>>

\* Direction with the test for a second level made lenient: a column of one
\* level is taken as it is
DirectionLenient ==
    /\ pc = "dir"
    /\ uP' = IF Len(P) >= 2 /\ FLt(P[1], P[2]) THEN Reverse(P) ELSE P
    /\ pc' = "diff"
    /\ UNCHANGED <<Tref, P, T, dP, n, ret, err, Pin, atP, writes, allocs,
                   steps, evals, sing, nonfin, prev, lapseVars, otherVars,
                   reads>>

\* Direction reversing the caller's array in place (P[:] = P[::-1])
DirectionInPlace ==
    /\ pc = "dir"
    /\ IF Len(P) < 2
       THEN /\ pc' = "raised"
            /\ err' = "IndexError"
            /\ UNCHANGED <<uP, P>>
       ELSE /\ P' = IF FLt(P[1], P[2]) THEN Reverse(P) ELSE P
            /\ uP' = P'
            /\ pc' = "diff"
            /\ err' = err
    /\ UNCHANGED <<Tref, T, dP, n, ret, Pin, atP, writes, allocs, steps,
                   evals, sing, nonfin, prev, lapseVars, otherVars,
                   reads>>

\* Direction with the comparison turned round (if P[0] > P[1])
DirectionTurned ==
    /\ pc = "dir"
    /\ IF Len(P) < 2
       THEN /\ pc' = "raised"
            /\ err' = "IndexError"
            /\ uP' = uP
       ELSE /\ uP' = IF FLt(P[2], P[1]) THEN Reverse(P) ELSE P
            /\ pc' = "diff"
            /\ err' = err
    /\ UNCHANGED <<Tref, P, T, dP, n, ret, Pin, atP, writes, allocs, steps,
                   evals, sing, nonfin, prev, lapseVars, otherVars,
                   reads>>

\* Direction that integrates the column in the order the caller gave it
\* (uP = P, no flip)
DirectionAsGiven ==
    /\ pc = "dir"
    /\ IF Len(P) < 2
       THEN /\ pc' = "raised"
            /\ err' = "IndexError"
            /\ uP' = uP
       ELSE /\ uP' = P
            /\ pc' = "diff"
            /\ err' = err
    /\ UNCHANGED <<Tref, P, T, dP, n, ret, Pin, atP, writes, allocs, steps,
                   evals, sing, nonfin, prev, lapseVars, otherVars,
                   reads>>

\* if P[0]<P[1]: uP = P[::-1] else: uP = P; IndexError when P has one level
Direction ==
    /\ pc = "dir"
    /\ IF Len(P) < 2
       THEN /\ pc' = "raised"
            /\ err' = "IndexError"
            /\ uP' = uP
       ELSE /\ uP' = IF FLt(P[1], P[2]) THEN Reverse(P) ELSE P
            /\ pc' = "diff"
            /\ err' = err
    /\ UNCHANGED <<Tref, P, T, dP, n, ret, Pin, atP, writes, allocs, steps,
                   evals, sing, nonfin, prev, lapseVars, otherVars,
                   reads>>

\* Diff with the operands of the difference exchanged (dP = uP[1:] - uP[:-1])
DiffDownward ==
    /\ pc = "diff"
    /\ dP' = [i \in 1..(Len(uP) - 1) |-> FSub(uP[i + 1], uP[i])]
    /\ IF 1 < Len(P)
       THEN n' = 1 /\ pc' = "pred"
       ELSE n' = n /\ pc' = "ret"
    /\ UNCHANGED <<Tref, P, T, uP, ret, err, Pin, atP, writes, allocs, steps,
                   evals, sing, nonfin, prev, lapseVars, otherVars,
                   reads>>

\* dP = uP[:-1] - uP[1:], then the first test of for n in range(1,P.shape[0])
Diff ==
    /\ pc = "diff"
    /\ dP' = [i \in 1..(Len(uP) - 1) |-> FSub(uP[i], uP[i + 1])]
    /\ IF 1 < Len(P)
       THEN n' = 1 /\ pc' = "pred"
       ELSE n' = n /\ pc' = "ret"
    /\ UNCHANGED <<Tref, P, T, uP, ret, err, Pin, atP, writes, allocs, steps,
                   evals, sing, nonfin, prev, lapseVars, otherVars,
                   reads>>

\* whether a half step computed a non-finite density, thickness or temperature
NonFinite(v) == ~IsFinite(v.rho) \/ ~IsFinite(v.Dz) \/ ~IsFinite(v.Tn)

\* the predictor of layer n: from T[n-1] and uP[n-1] to the provisional T[n]
\* (element i of a numpy array is element i+1 of the sequence)
Predictor ==
    /\ pc = "pred"
    /\ \E v \in {LayerValues(T[n], uP[n], dP[n], T[n])} :
           /\ T' = [T EXCEPT ![n + 1] = v.Tn]
           /\ sing' = (sing \/ NonPositive(v.den))
           /\ nonfin' = IF nonfin = 0 /\ NonFinite(v) THEN n ELSE nonfin
    /\ atP' = [atP EXCEPT ![n] = uP[n]]
    /\ writes' = Append(writes, n)
    /\ reads' = Append(reads, <<n, n - 1>>)
    /\ evals' = evals + 1
    /\ pc' = "corr"
    /\ UNCHANGED <<Tref, P, uP, dP, n, ret, err, Pin, allocs, steps, prev,
                   lapseVars, otherVars>>

\* Corrector that leaves the predictor's value in T[n] (a plain forward-Euler
\* step)
CorrectorEuler ==
    /\ pc = "corr"
    /\ \E Tbar \in {FMul(Flt(5, -1), FAdd(T[n], T[n + 1]))},
          Pbar \in {FMul(Flt(5, -1), FAdd(uP[n], uP[n + 1]))} :
         \E v \in {LayerValues(Tbar, Pbar, dP[n], T[n])} :
           /\ T' = T
           /\ sing' = (sing \/ NonPositive(v.den))
           /\ nonfin' = IF nonfin = 0 /\ NonFinite(v) THEN n ELSE nonfin
    /\ atP' = [atP EXCEPT ![n + 1] = uP[n + 1]]
    /\ writes' = Append(writes, n)
    /\ reads' = reads \o << <<n, n - 1>>, <<n, n>> >>
    /\ evals' = evals + 1
    /\ steps' = steps + 1
    /\ IF n + 1 < Len(P)
       THEN n' = n + 1 /\ pc' = "pred"
       ELSE n' = n /\ pc' = "ret"
    /\ UNCHANGED <<Tref, P, uP, dP, ret, err, Pin, allocs, prev, lapseVars,
                   otherVars>>

\* Corrector whose loop test stops one layer early
\* (for n in range(1, P.shape[0] - 1))
CorrectorShort ==
    /\ pc = "corr"
    /\ \E Tbar \in {FMul(Flt(5, -1), FAdd(T[n], T[n + 1]))},
          Pbar \in {FMul(Flt(5, -1), FAdd(uP[n], uP[n + 1]))} :
         \E v \in {LayerValues(Tbar, Pbar, dP[n], T[n])} :
           /\ T' = [T EXCEPT ![n + 1] = v.Tn]
           /\ sing' = (sing \/ NonPositive(v.den))
           /\ nonfin' = IF nonfin = 0 /\ NonFinite(v) THEN n ELSE nonfin
    /\ atP' = [atP EXCEPT ![n + 1] = uP[n + 1]]
    /\ writes' = Append(writes, n)
    /\ reads' = reads \o << <<n, n - 1>>, <<n, n>> >>
    /\ evals' = evals + 1
    /\ steps' = steps + 1
    /\ IF n + 2 < Len(P)
       THEN n' = n + 1 /\ pc' = "pred"
       ELSE n' = n /\ pc' = "ret"
    /\ UNCHANGED <<Tref, P, uP, dP, ret, err, Pin, allocs, prev, lapseVars,
                   otherVars>>

\* Corrector with the index of its assignment one too low (T[n-1] = ...): it
\* writes over the level below
CorrectorBelow ==
    /\ pc = "corr"
    /\ \E Tbar \in {FMul(Flt(5, -1), FAdd(T[n], T[n + 1]))},
          Pbar \in {FMul(Flt(5, -1), FAdd(uP[n], uP[n + 1]))} :
         \E v \in {LayerValues(Tbar, Pbar, dP[n], T[n])} :
           /\ T' = [T EXCEPT ![n] = v.Tn]
           /\ sing' = (sing \/ NonPositive(v.den))
           /\ nonfin' = IF nonfin = 0 /\ NonFinite(v) THEN n ELSE nonfin
    /\ atP' = [atP EXCEPT ![n + 1] = uP[n + 1]]
    /\ writes' = Append(writes, n - 1)
    /\ reads' = reads \o << <<n, n - 1>>, <<n, n>> >>
    /\ evals' = evals + 1
    /\ steps' = steps + 1
    /\ IF n + 1 < Len(P)
       THEN n' = n + 1 /\ pc' = "pred"
       ELSE n' = n /\ pc' = "ret"
    /\ UNCHANGED <<Tref, P, uP, dP, ret, err, Pin, allocs, prev, lapseVars,
                   otherVars>>

\* the corrector of layer n: from Tbar and Pbar to the final T[n], then the
\* next test of the loop
Corrector ==
    /\ pc = "corr"
    /\ \E Tbar \in {FMul(Flt(5, -1), FAdd(T[n], T[n + 1]))},
          Pbar \in {FMul(Flt(5, -1), FAdd(uP[n], uP[n + 1]))} :
         \E v \in {LayerValues(Tbar, Pbar, dP[n], T[n])} :
           /\ T' = [T EXCEPT ![n + 1] = v.Tn]
           /\ sing' = (sing \/ NonPositive(v.den))
           /\ nonfin' = IF nonfin = 0 /\ NonFinite(v) THEN n ELSE nonfin
    /\ atP' = [atP EXCEPT ![n + 1] = uP[n + 1]]
    /\ writes' = Append(writes, n)
    /\ reads' = reads \o << <<n, n - 1>>, <<n, n>> >>
    /\ evals' = evals + 1
    /\ steps' = steps + 1
    /\ IF n + 1 < Len(P)
       THEN n' = n + 1 /\ pc' = "pred"
       ELSE n' = n /\ pc' = "ret"
    /\ UNCHANGED <<Tref, P, uP, dP, ret, err, Pin, allocs, prev, lapseVars,
                   otherVars>>

\* Return that puts the profile back into the caller's order when the column
\* was reversed
ReturnUnreversed ==
    /\ pc = "ret"
    /\ ret' = IF uP = P THEN T ELSE Reverse(T)
    /\ pc' = "done"
    /\ UNCHANGED <<Tref, P, T, uP, dP, n, err, Pin, atP, writes, allocs,
                   steps, evals, sing, nonfin, prev, lapseVars, otherVars,
                   reads>>

\* Return handing back only the levels the loop computed (return T[1:])
ReturnComputed ==
    /\ pc = "ret"
    /\ ret' = Tail(T)
    /\ pc' = "done"
    /\ UNCHANGED <<Tref, P, T, uP, dP, n, err, Pin, atP, writes, allocs,
                   steps, evals, sing, nonfin, prev, lapseVars, otherVars,
                   reads>>

\* return T
Return ==
    /\ pc = "ret"
    /\ ret' = T
    /\ pc' = "done"
    /\ UNCHANGED <<Tref, P, T, uP, dP, n, err, Pin, atP, writes, allocs,
                   steps, evals, sing, nonfin, prev, lapseVars, otherVars,
                   reads>>

\* the caller keeps the arguments and the array of the call that returned
Remember ==
    /\ pc = "done"
    /\ prev' = [set |-> TRUE, Tref |-> Tref, P |-> Pin, ret |-> ret,
                age |-> 0]
    /\ prev' # prev
    /\ UNCHANGED <<callVars, lapseVars, otherVars>>

\* mixing ratios handed to moist_lapserate: 0, 1e-6 .. 5e6, and -0.5
WSet ==
    {Zero, Flt(-5, -1)}
        \cup {Flt(m, e) : m \in {1, 5}, e \in (0 - MaxWExp)..MaxWExp}

\* temperatures (deg C) handed to moist_lapserate; T + 273.15 <= 0 at -300 and
\* 2.5e6 - 2500*T <= 0 at 1200
TLapseSet ==
    {Flt(-300, 0), Flt(-273, 0), Flt(-200, 0), Flt(-60, 0), Zero, Flt(20, 0),
     Flt(40, 0), Flt(100, 0), Flt(999, 0), Flt(1200, 0)}

InitLapse ==
    /\ pc = "off"
    /\ Tref = Zero
    /\ P = <<>>
    /\ T = <<>>
    /\ uP = <<>>
    /\ dP = <<>>
    /\ n = 0
    /\ ret = <<>>
    /\ err = ""
    /\ Pin = <<>>
    /\ atP = <<>>
    /\ writes = <<>>
    /\ reads = <<>>
    /\ allocs = 0
    /\ steps = 0
    /\ evals = 0
    /\ sing = FALSE
    /\ nonfin = 0
    /\ prev = NoResult
    /\ lw \in WSet
    /\ lT \in TLapseSet
    /\ lGamma = Zero
    /\ lpc = "ready"
    /\ OtherOff

\* a direct call of moist_lapserate(lw, lT)
EvalLapse ==
    /\ lpc = "ready"
    /\ lGamma' = moist_lapserate(lw, lT)
    /\ lpc' = "evaluated"
    /\ UNCHANGED <<callVars, prev, lw, lT, otherVars>>

NextLapse == EvalLapse

SpecLapse == InitLapse /\ [][NextLapse]_vars

Next ==
    \/ Call
    \/ Alloc
    \/ Seed
    \/ Direction
    \/ Diff
    \/ Predictor
    \/ Corrector
    \/ Return

Spec == Init /\ [][Next]_vars

\* the statements of calc_moist_adiabat, once it is called
Body ==
    \/ Alloc
    \/ Seed
    \/ Direction
    \/ Diff
    \/ Predictor
    \/ Corrector
    \/ Return

\* pressures (hPa) of the columns of a call that is followed to its end: with
\* 6.112 and 5 hPa, columns on which the mixing ratio is singular and the
\* profile holds inf and nan are among them
PSetRun == {Flt(1000, 0), Flt(6112, -3), Flt(5, 0)}

\* a call by any caller
CallRun ==
    /\ pc = "idle"
    /\ \E a \in TrefSet \X Columns(PSetRun, MaxLen) : Invoke(a[1], a[2])

NextRun ==
    \/ CallRun
    \/ Alloc
    \/ Seed
    \/ Direction
    \/ Diff
    \/ Predictor
    \/ Corrector
    \/ Return

\* a call runs on: the interpreter executes the next statement of the function
\* it is in (one thread, no blocking call in the body)
SpecRun == Init /\ [][NextRun]_vars /\ WF_vars(Body)

NextH ==
    \/ CallH
    \/ Alloc
    \/ Seed
    \/ Direction
    \/ Diff
    \/ Predictor
    \/ Corrector
    \/ Return
    \/ Remember

SpecH == Init /\ [][NextH]_vars

\* a caller that has kept the profile of a call calls again with the same Tref
\* and the column reversed (P[::-1])
CallReversed ==
    /\ pc = "done"
    /\ prev.set
    /\ prev.age = 0
    /\ prev.P = Pin
    /\ Invoke(prev.Tref, Reverse(prev.P))

NextRev ==
    \/ Call
    \/ Alloc
    \/ Seed
    \/ Direction
    \/ Diff
    \/ Predictor
    \/ Corrector
    \/ Return
    \/ Remember
    \/ CallReversed

SpecRev == Init /\ [][NextRev]_vars

----------------------------------------------------------------------------
(* two invocations of calc_moist_adiabat whose steps interleave *)

\* largest number of levels of the columns of two interleaved invocations
MaxLenPar == 2

ParColumns == Columns(PSetH, MaxLenPar)

\* element i (from 1) of the view v of the heap h
ViewAt(h, v, i) ==
    IF v.rev THEN h[v.a][Len(h[v.a]) + 1 - i] ELSE h[v.a][i]

\* the final temperature at the top of a layer, from the temperature Tb at its
\* bottom and the pressures pb and pt at its bottom and top
SoloStep(Tb, pb, pt) ==
    CHOOSE r \in
      {LayerValues(Tbar, Pbar, dp, b).Tn :
         Tbar \in {FMul(Flt(5, -1), FAdd(b, LayerValues(b, p, d, b).Tn)) :
                     b \in {Tb}, p \in {pb}, d \in {FSub(pb, pt)}},
         Pbar \in {FMul(Flt(5, -1), FAdd(pb, pt))},
         dp \in {FSub(pb, pt)},
         b \in {Tb}} : TRUE

\* the profile calc_moist_adiabat builds from level k on when it runs alone,
\* Tk being a sequence that holds the temperatures of levels 1..k
RECURSIVE SoloFrom(_, _, _)
SoloFrom(Tk, up, k) ==
    IF k >= Len(up)
    THEN Tk
    ELSE CHOOSE r \in
           {SoloFrom(s, u, j) :
              s \in {Append(Tk, SoloStep(b, pb, pt)) :
                       b \in {Tk[k]}, pb \in {up[k]}, pt \in {up[k + 1]}},
              u \in {up}, j \in {k + 1}} : TRUE

\* what calc_moist_adiabat(t, c) returns when it runs alone (<<>>: it raises)
Solo(t, c) ==
    IF Len(c) < 2
    THEN <<>>
    ELSE CHOOSE r \in
           {SoloFrom(<<t>>, up, 1) :
              up \in {IF FLt(c[1], c[2]) THEN Reverse(c) ELSE c}} : TRUE

\* the frame of an invocation that was entered with Tref = t and P bound to the
\* array at address a, which holds c; T and ret are addresses (0: not bound),
\* uP is a view of an array (numpy's P[::-1] is a view, not a copy); alone is
\* history, set when the invocation returns: what it returns when run alone
NewFrame(t, a) ==
    [pc |-> "alloc", Tref |-> t, P |-> a, T |-> 0,
     uP |-> [a |-> 0, rev |-> FALSE], dP |-> <<>>, n |-> 0, ret |-> 0,
     err |-> "", alone |-> <<>>]

InitPar ==
    /\ pc = "off"
    /\ Tref = Zero
    /\ P = <<>>
    /\ T = <<>>
    /\ uP = <<>>
    /\ dP = <<>>
    /\ n = 0
    /\ ret = <<>>
    /\ err = ""
    /\ Pin = <<>>
    /\ atP = <<>>
    /\ writes = <<>>
    /\ reads = <<>>
    /\ allocs = 0
    /\ steps = 0
    /\ evals = 0
    /\ sing = FALSE
    /\ nonfin = 0
    /\ prev = NoResult
    /\ lw = Zero
    /\ lT = Zero
    /\ lGamma = Zero
    /\ lpc = "off"
    /\ heap \in {<<c1, c2>> : c1 \in ParColumns, c2 \in ParColumns}
    /\ frames \in {<<NewFrame(t1, 1), NewFrame(t2, a2)>> :
                      t1 \in TrefSetH, t2 \in TrefSetH, a2 \in {1, 2}}
    /\ frames[2].P = 1 => heap[2] = heap[1]
    /\ wc = [pc |-> "off"]
    /\ gr = [pc |-> "off"]
    /\ mg = [pc |-> "off"]
    /\ sk = [pc |-> "off"]

ParFrame == <<callVars, prev, lapseVars, wc, gr, mg, sk>>

\* ParAlloc taking the buffer from a cache of buffers kept by shape instead of
\* making a fresh one
ParAllocCached(i) ==
    /\ frames[i].pc = "alloc"
    /\ LET N == Len(heap[frames[i].P])
           cached == {a \in 3..Len(heap) : Len(heap[a]) = N}
       IN  IF cached # {}
           THEN /\ heap' = heap
                /\ frames' = [frames EXCEPT ![i].T = CHOOSE a \in cached : TRUE,
                                            ![i].pc = "seed"]
           ELSE /\ heap' = Append(heap, [k \in 1..N |-> Zero])
                /\ frames' = [frames EXCEPT ![i].T = Len(heap) + 1,
                                            ![i].pc = "seed"]
    /\ UNCHANGED ParFrame

\* T = np.zeros(P.shape): a new array, at an address no frame holds
ParAlloc(i) ==
    /\ frames[i].pc = "alloc"
    /\ heap' = Append(heap, [k \in 1..Len(heap[frames[i].P]) |-> Zero])
    /\ frames' = [frames EXCEPT ![i].T = Len(heap) + 1, ![i].pc = "seed"]
    /\ UNCHANGED ParFrame

\* T[0] = Tref
ParSeed(i) ==
    /\ frames[i].pc = "seed"
    /\ LET f == frames[i]
       IN  IF Len(heap[f.T]) = 0
           THEN /\ frames' = [frames EXCEPT ![i].pc = "raised",
                                            ![i].err = "IndexError"]
                /\ heap' = heap
           ELSE /\ heap' = [heap EXCEPT ![f.T][1] = f.Tref]
                /\ frames' = [frames EXCEPT ![i].pc = "dir"]
    /\ UNCHANGED ParFrame

\* if P[0]<P[1]: uP = P[::-1] else: uP = P
ParDirection(i) ==
    /\ frames[i].pc = "dir"
    /\ LET f == frames[i]
           c == heap[f.P]
       IN  IF Len(c) < 2
           THEN frames' = [frames EXCEPT ![i].pc = "raised",
                                         ![i].err = "IndexError"]
           ELSE frames' = [frames EXCEPT
                             ![i].uP = [a |-> f.P, rev |-> FLt(c[1], c[2])],
                             ![i].pc = "diff"]
    /\ UNCHANGED <<heap, ParFrame>>

\* dP = uP[:-1] - uP[1:], a new array, then the first test of the loop
ParDiff(i) ==
    /\ frames[i].pc = "diff"
    /\ LET f == frames[i]
           N == Len(heap[f.P])
       IN  frames' = [frames EXCEPT
                        ![i].dP = [k \in 1..(N - 1) |->
                                      FSub(ViewAt(heap, f.uP, k),
                                           ViewAt(heap, f.uP, k + 1))],
                        ![i].n = 1,
                        ![i].pc = IF 1 < N THEN "pred" ELSE "ret"]
    /\ UNCHANGED <<heap, ParFrame>>

\* the predictor of layer n of invocation i
ParPredictor(i) ==
    /\ frames[i].pc = "pred"
    /\ LET f == frames[i]
       IN  \E Tb \in {heap[f.T][f.n]} :
             \E v \in {LayerValues(Tb, ViewAt(heap, f.uP, f.n), f.dP[f.n],
                                   Tb)} :
                heap' = [heap EXCEPT ![f.T][f.n + 1] = v.Tn]
    /\ frames' = [frames EXCEPT ![i].pc = "corr"]
    /\ UNCHANGED ParFrame

\* the corrector of layer n of invocation i, then the next test of the loop
ParCorrector(i) ==
    /\ frames[i].pc = "corr"
    /\ LET f == frames[i]
       IN  /\ \E Tb \in {heap[f.T][f.n]},
                 Tbar \in {FMul(Flt(5, -1),
                                FAdd(heap[f.T][f.n], heap[f.T][f.n + 1]))},
                 Pbar \in {FMul(Flt(5, -1),
                                FAdd(ViewAt(heap, f.uP, f.n),
                                     ViewAt(heap, f.uP, f.n + 1)))} :
                \E v \in {LayerValues(Tbar, Pbar, f.dP[f.n], Tb)} :
                   heap' = [heap EXCEPT ![f.T][f.n + 1] = v.Tn]
           /\ frames' = IF f.n + 1 < Len(heap[f.P])
                        THEN [frames EXCEPT ![i].n = f.n + 1,
                                            ![i].pc = "pred"]
                        ELSE [frames EXCEPT ![i].pc = "ret"]
    /\ UNCHANGED ParFrame

\* return T: the caller gets the buffer itself
ParReturn(i) ==
    /\ frames[i].pc = "ret"
    /\ \E r \in {Solo(frames[i].Tref, heap[frames[i].P])} :
          frames' = [frames EXCEPT ![i].ret = frames[i].T, ![i].pc = "done",
                                   ![i].alone = r]
    /\ UNCHANGED <<heap, ParFrame>>

NextPar ==
    \/ \E i \in 1..2 : ParAlloc(i)
    \/ \E i \in 1..2 : ParSeed(i)
    \/ \E i \in 1..2 : ParDirection(i)
    \/ \E i \in 1..2 : ParDiff(i)
    \/ \E i \in 1..2 : ParPredictor(i)
    \/ \E i \in 1..2 : ParCorrector(i)
    \/ \E i \in 1..2 : ParReturn(i)

SpecPar == InitPar /\ [][NextPar]_vars

----------------------------------------------------------------------------
(* windchill of metpy/calc.py *)

\* calc_moist_adiabat is not in use
CallOff ==
    /\ pc = "off"
    /\ Tref = Zero
    /\ P = <<>>
    /\ T = <<>>
    /\ uP = <<>>
    /\ dP = <<>>
    /\ n = 0
    /\ ret = <<>>
    /\ err = ""
    /\ Pin = <<>>
    /\ atP = <<>>
    /\ writes = <<>>
    /\ reads = <<>>
    /\ allocs = 0
    /\ steps = 0
    /\ evals = 0
    /\ sing = FALSE
    /\ nonfin = 0
    /\ prev = NoResult

\* moist_lapserate is not in use
LapseOff ==
    /\ lw = Zero
    /\ lT = Zero
    /\ lGamma = Zero
    /\ lpc = "off"

\* largest number of elements of the arrays handed to windchill
MaxWcLen == 2

\* scipy.constants.hour and scipy.constants.kilo
hour == Flt(3600, 0)

kilo == Flt(1000, 0)

\* temperatures handed to windchill (deg F, or deg C when metric)
WcTempSet == {Flt(10, 0), Flt(101, -1), Flt(50, 0), Flt(501, -1)}

\* wind speeds handed to windchill (mph, or m/s when metric); 4.828 km/h lies
\* between 1.3411 m/s and 1.3412 m/s
WcSpeedSet ==
    {Flt(89, -2), Flt(13411, -4), Flt(13412, -4), Flt(2, 0), Flt(3, 0),
     Flt(31, -1)}

\* the arrays of k elements over S, k = 1..maxlen
Arrays(S, maxlen) == UNION {[1..k -> S] : k \in 1..maxlen}

\* windchill with the test of the speed made strict (speed < speed_limit)
windchill_strict(temp, speed, metric, face_level_winds, mask_undefined) ==
    LET speed1 == IF face_level_winds
                  THEN [i \in DOMAIN speed |-> FMul(speed[i], Flt(15, -1))]
                  ELSE speed
        temp_limit == IF metric THEN Flt(10, 0) ELSE Flt(50, 0)
        speed_limit == IF metric THEN Flt(4828, -3) ELSE Flt(3, 0)
        speed2 == IF metric
                  THEN [i \in DOMAIN speed |->
                           FDiv(FMul(speed1[i], hour), kilo)]
                  ELSE speed1
        wcti == [i \in DOMAIN temp |->
                    [formula |-> IF metric THEN "metric" ELSE "imperial",
                     temp |-> temp[i], speed |-> speed2[i]]]
        mask == [i \in DOMAIN temp |->
                    FLt(temp_limit, temp[i]) \/ FLt(speed2[i], speed_limit)]
    IN  IF mask_undefined /\ (\E i \in DOMAIN mask : mask[i])
        THEN [masked |-> TRUE, data |-> wcti, mask |-> mask]
        ELSE [masked |-> FALSE, data |-> wcti, mask |-> <<>>]

\* windchill(temp, speed, metric, face_level_winds, mask_undefined) on arrays of
\* one shape.  The index value wcti[i] is kept as the formula of lines 185-186
\* or 190-191 together with its operands temp[i] and speed[i] (the speed after
\* the corrections); the result is a plain array (masked = FALSE) or a masked
\* array with its mask.
windchill(temp, speed, metric, face_level_winds, mask_undefined) ==
    LET speed1 == IF face_level_winds
                  THEN [i \in DOMAIN speed |-> FMul(speed[i], Flt(15, -1))]
                  ELSE speed
        temp_limit == IF metric THEN Flt(10, 0) ELSE Flt(50, 0)
        speed_limit == IF metric THEN Flt(4828, -3) ELSE Flt(3, 0)
        speed2 == IF metric
                  THEN [i \in DOMAIN speed |->
                           FDiv(FMul(speed1[i], hour), kilo)]
                  ELSE speed1
        wcti == [i \in DOMAIN temp |->
                    [formula |-> IF metric THEN "metric" ELSE "imperial",
                     temp |-> temp[i], speed |-> speed2[i]]]
        mask == [i \in DOMAIN temp |->
                    FLt(temp_limit, temp[i]) \/ FLe(speed2[i], speed_limit)]
    IN  IF mask_undefined /\ (\E i \in DOMAIN mask : mask[i])
        THEN [masked |-> TRUE, data |-> wcti, mask |-> mask]
        ELSE [masked |-> FALSE, data |-> wcti, mask |-> <<>>]

InitWc ==
    /\ CallOff
    /\ LapseOff
    /\ frames = <<>>
    /\ heap = <<>>
    /\ wc \in {[pc |-> "ready", temp |-> a[1], speed |-> a[2], metric |-> f[1],
               face_level_winds |-> f[2], mask_undefined |-> f[3],
               wcti |-> [masked |-> FALSE, data |-> <<>>, mask |-> <<>>]] :
                 a \in {b \in Arrays(WcTempSet, MaxWcLen)
                                \X Arrays(WcSpeedSet, MaxWcLen) :
                          Len(b[1]) = Len(b[2])},
                 f \in BOOLEAN \X BOOLEAN \X BOOLEAN}
    /\ gr = [pc |-> "off"]
    /\ mg = [pc |-> "off"]
    /\ sk = [pc |-> "off"]

\* a call of windchill
EvalWindchill ==
    /\ wc.pc = "ready"
    /\ wc' = [wc EXCEPT
                !.pc = "returned",
                !.wcti = windchill(wc.temp, wc.speed, wc.metric,
                                   wc.face_level_winds, wc.mask_undefined)]
    /\ UNCHANGED <<callVars, prev, lapseVars, frames, heap, gr, mg, sk>>

NextWc == EvalWindchill

SpecWc == InitWc /\ [][NextWc]_vars

----------------------------------------------------------------------------
(* h_convergence, v_vorticity and convergence_vorticity of metpy/calc.py *)

\* largest number of grid points along x
MaxNx == 3

\* number of grid points along y
Ny == 2

\* the nx by Ny arrays over S; a[i][j] is the value at x index i, y index j
Grids(S, nx) == [1..nx -> [1..Ny -> S]]

\* components u of the wind: every array of zeros and ones
UValues == {Zero, One}

\* components v of the wind: uniform, sheared along x, and bent along y
VGrids(nx) ==
    {[i \in 1..nx |-> [j \in 1..Ny |-> Flt(2, 0)]],
     [i \in 1..nx |-> [j \in 1..Ny |-> FromInt(3 * i)]],
     [i \in 1..nx |-> [j \in 1..Ny |-> FromInt(i * i + j)]]}

\* grid spacings
DxSet == {One, Flt(2, 0)}

DySet == {Flt(5, -1)}

\* np.gradient along the first axis with spacing d: one-sided differences at
\* the two ends, centred differences halved between them
GradientX(f, d) ==
    [i \in 1..Len(f) |->
       [j \in 1..Len(f[1]) |->
          IF i = 1 THEN FDiv(FSub(f[2][j], f[1][j]), d)
          ELSE IF i = Len(f) THEN FDiv(FSub(f[i][j], f[i - 1][j]), d)
          ELSE FDiv(FDiv(FSub(f[i + 1][j], f[i - 1][j]), Flt(2, 0)), d)]]

\* np.gradient along the second axis with spacing d
GradientY(f, d) ==
    [i \in 1..Len(f) |->
       [j \in 1..Len(f[1]) |->
          IF j = 1 THEN FDiv(FSub(f[i][2], f[i][1]), d)
          ELSE IF j = Len(f[1]) THEN FDiv(FSub(f[i][j], f[i][j - 1]), d)
          ELSE FDiv(FDiv(FSub(f[i][j + 1], f[i][j - 1]), Flt(2, 0)), d)]]

\* dudx, dudy = np.gradient(u, dx, dy); dvdx, dvdy = np.gradient(v, dx, dy)
get_gradients(u, v, dx, dy) ==
    [dudx |-> GradientX(u, dx), dudy |-> GradientY(u, dy),
     dvdx |-> GradientX(v, dx), dvdy |-> GradientY(v, dy)]

\* a + b and a - b of two arrays of one shape
GridAdd(a, b) ==
    [i \in 1..Len(a) |-> [j \in 1..Len(a[1]) |-> FAdd(a[i][j], b[i][j])]]

GridSub(a, b) ==
    [i \in 1..Len(a) |-> [j \in 1..Len(a[1]) |-> FSub(a[i][j], b[i][j])]]

\* return dvdx - dudy
v_vorticity(u, v, dx, dy) ==
    LET gd == get_gradients(u, v, dx, dy)
    IN  GridSub(gd.dvdx, gd.dudy)

\* return dudx + dvdy
h_convergence(u, v, dx, dy) ==
    LET gd == get_gradients(u, v, dx, dy)
    IN  GridAdd(gd.dudx, gd.dvdy)

\* convergence_vorticity with the terms of the vorticity exchanged
\* (dudy - dvdx)
convergence_vorticity_exchanged(u, v, dx, dy) ==
    LET gd == get_gradients(u, v, dx, dy)
    IN  <<GridAdd(gd.dudx, gd.dvdy), GridSub(gd.dudy, gd.dvdx)>>

\* return dudx + dvdy, dvdx - dudy
convergence_vorticity(u, v, dx, dy) ==
    LET gd == get_gradients(u, v, dx, dy)
    IN  <<GridAdd(gd.dudx, gd.dvdy), GridSub(gd.dvdx, gd.dudy)>>

InitGr ==
    /\ CallOff
    /\ LapseOff
    /\ frames = <<>>
    /\ heap = <<>>
    /\ wc = [pc |-> "off"]
    /\ gr \in {[pc |-> "ready", u |-> a[1], v |-> a[2], dx |-> d[1],
               dy |-> d[2], cv |-> <<>>, hc |-> <<>>, vv |-> <<>>] :
                 a \in UNION {Grids(UValues, nx) \X VGrids(nx) :
                                nx \in 2..MaxNx},
                 d \in DxSet \X DySet}
    /\ mg = [pc |-> "off"]
    /\ sk = [pc |-> "off"]

GrFrame == <<callVars, prev, lapseVars, frames, heap, wc, mg, sk>>

\* a call of convergence_vorticity(u, v, dx, dy), the result kept in cv
CallConvergenceVorticity ==
    /\ gr.pc = "ready"
    /\ gr.cv = <<>>
    /\ gr' = [gr EXCEPT !.cv = convergence_vorticity(gr.u, gr.v, gr.dx, gr.dy)]
    /\ UNCHANGED GrFrame

\* a call of h_convergence(u, v, dx, dy), the result kept in hc
CallHConvergence ==
    /\ gr.pc = "ready"
    /\ gr.hc = <<>>
    /\ gr' = [gr EXCEPT !.hc = h_convergence(gr.u, gr.v, gr.dx, gr.dy)]
    /\ UNCHANGED GrFrame

\* a call of v_vorticity(u, v, dx, dy), the result kept in vv
CallVVorticity ==
    /\ gr.pc = "ready"
    /\ gr.vv = <<>>
    /\ gr' = [gr EXCEPT !.vv = v_vorticity(gr.u, gr.v, gr.dx, gr.dy)]
    /\ UNCHANGED GrFrame

NextGr ==
    \/ CallConvergenceVorticity
    \/ CallHConvergence
    \/ CallVVorticity

SpecGr == InitGr /\ [][NextGr]_vars

----------------------------------------------------------------------------
(* meteogram of trunk/metpy/vis/plots.py *)

\* largest num_panels handed to meteogram
MaxPanels == 2

\* a Python dictionary is a function from its keys; d.get(k, x)
Get(d, k, x) == IF k \in DOMAIN d THEN d[k] ELSE x

\* d1.update(d2): the entries of d2, then those of d1 under the other keys
Update(d1, d2) ==
    [k \in (DOMAIN d1) \cup (DOMAIN d2) |->
        IF k \in DOMAIN d2 THEN d2[k] ELSE d1[k]]

\* d without the key k (what d.pop(k, x) leaves)
Without(d, k) == [j \in (DOMAIN d) \ {k} |-> d[j]]

\* the empty dictionary
EmptyDict == [k \in {} |-> ""]

\* default_layout; the string "None" in a list stands for None.  field_info
\* is left out by the callers modelled, so map_field is the identity.
default_layout ==
    (0 :> <<"temperature", "dewpoint">>)
        @@ (1 :> <<"wind gusts", "wind speed", "None", "wind direction">>)
        @@ (2 :> <<"pressure">>)
        @@ (3 :> <<"rainfall">>)
        @@ (4 :> <<"solar radiation">>)

\* dict(facecolor=c, edgecolor='None', fill=True)
Filled(c) ==
    ("facecolor" :> c) @@ ("edgecolor" :> "None") @@ ("fill" :> "True")

\* default_styles
default_styles ==
    ("relative humidity" :> (("color" :> "green") @@ ("linestyle" :> "--")))
        @@ ("dewpoint" :> Filled("green"))
        @@ ("temperature" :> Filled("red"))
        @@ ("pressure" :> Filled("brown"))
        @@ ("wind speed" :> Filled("blue"))
        @@ ("wind gusts" :> Filled("lightblue"))
        @@ ("wind direction" :>
               (("markeredgecolor" :> "goldenrod") @@ ("marker" :> "o")
                  @@ ("linestyle" :> "") @@ ("markerfacecolor" :> "None")
                  @@ ("markeredgewidth" :> "1")))
        @@ ("rainfall" :> Filled("lightgreen"))
        @@ ("solar radiation" :> Filled("orange"))

\* default_limits; numbers, tick lists and label lists are kept as text
default_limits ==
    ("wind direction" :> <<"0", "360", "arange(0,400,45)", "N..N">>)
        @@ ("wind speed" :> <<"0", "None">>)
        @@ ("wind gusts" :> <<"0", "None">>)
        @@ ("rainfall" :> <<"0", "None">>)
        @@ ("solar radiation" :> <<"0", "800">>)

\* default_units
default_units ==
    ("temperature" :> "C") @@ ("dewpoint" :> "C")
        @@ ("relative humidity" :> "%") @@ ("pressure" :> "mb")
        @@ ("wind speed" :> "m/s") @@ ("solar radiation" :> "$W/m^2$")
        @@ ("rainfall" :> "mm") @@ ("wind gusts" :> "m/s")

\* values of the argument time_range: omitted, a timedelta, a sequence
TimeRanges == {"None", "timedelta", "sequence"}

\* values of the argument ticker: omitted, a DateLocator of the caller
Tickers == {"None", "DayLocator"}

\* values of the argument layout
Layouts ==
    {EmptyDict,
     0 :> <<"temperature", "None", "relative humidity">>,
     0 :> <<"wind direction", "temperature">>}

\* values of the argument limits
LimitsArgs ==
    {EmptyDict,
     "temperature" :> <<"-10", "40">>,
     "temperature" :> <<"-10", "40", "[-10,0,20,40]">>,
     "temperature" :> <<"-10", "40", "[-10,0,20,40]", "cold..hot">>,
     "wind speed" :> <<"0", "None", "[0,5,10]">>}

\* values of the argument styles: dictionaries of the caller
StylesArgs ==
    {EmptyDict,
     "temperature" :> (("facecolor" :> "pink") @@ ("fill" :> "True")),
     "temperature" :> ("color" :> "black")}

\* a new axes object of the figure
NewAxes(panel, twin) ==
    [panel |-> panel, twin |-> twin, title |-> "", plots |-> <<>>,
     datalim |-> <<>>, yticks |-> "auto", yticklabels |-> "auto",
     ylim |-> <<"None", "None">>, ylabel |-> "", locator |-> "default",
     formatter |-> "default", ticks_position |-> "default", xlabel |-> "",
     xlim |-> "auto"]

\* a call of meteogram about to start: its arguments, the locals not yet bound
\* and the figure.  caller_styles holds the style dictionaries of the caller,
\* objects the call refers to; own_styles holds those the call makes itself;
\* styles maps a variable to the place its dictionary is in.  time_range_arg,
\* ticker_arg and styles_arg are history: the arguments as they were passed.
NewMeteogram(num_panels, time_range, ticker, layout, styles, limits) ==
    [pc |-> "ready", num_panels |-> num_panels, time_range |-> time_range,
     time_range_arg |-> time_range, ticker |-> ticker,
     ticker_arg |-> ticker, layout |-> layout, caller_styles |-> styles,
     styles_arg |-> styles, limits |-> limits, own_styles |-> EmptyDict,
     styles |-> EmptyDict, panel |-> 0, idx |-> 0, ax |-> 0,
     panel_twinned |-> FALSE, var_min |-> <<>>, var_max |-> <<>>,
     ticks |-> "unbound", fig |-> <<>>, axes |-> <<>>, ret |-> <<>>,
     err |-> ""]

InitMg ==
    /\ CallOff
    /\ LapseOff
    /\ frames = <<>>
    /\ heap = <<>>
    /\ wc = [pc |-> "off"]
    /\ gr = [pc |-> "off"]
    /\ mg \in {NewMeteogram(a[1], a[2], a[3], a[4], a[5], a[6]) :
                 a \in (1..MaxPanels) \X TimeRanges \X Tickers \X Layouts
                          \X StylesArgs \X LimitsArgs}
    /\ sk = [pc |-> "off"]

MgFrame == <<callVars, prev, lapseVars, frames, heap, wc, gr, sk>>

\* lines 88-188: the ticker and the time range, then the layout, styles and
\* limits of the caller laid over the defaults
MgSetup ==
    /\ mg.pc = "ready"
    /\ mg' = [mg EXCEPT
                !.pc = "panel",
                !.ticker =
                    IF mg.time_range = "None" /\ mg.ticker = "None"
                    THEN "HourLocator"
                    ELSE IF mg.ticker = "None" THEN "AutoDateLocator"
                    ELSE mg.ticker,
                !.time_range =
                    IF mg.time_range = "None" THEN "(end - 24 h, end)"
                    ELSE IF mg.time_range = "timedelta"
                    THEN "(end - timedelta, end)"
                    ELSE mg.time_range,
                !.layout = Update(default_layout, mg.layout),
                !.own_styles = default_styles,
                !.styles =
                    [v \in (DOMAIN default_styles)
                              \cup (DOMAIN mg.caller_styles) |->
                        IF v \in DOMAIN mg.caller_styles
                        THEN "caller" ELSE "own"],
                !.limits = Update(default_limits, mg.limits),
                !.panel = 0]
    /\ UNCHANGED MgFrame

\* lines 191-202: the next panel of for panel in range(num_panels), up to the
\* start of its loop over layout[panel]
MgPanel ==
    /\ mg.pc = "panel"
    /\ IF mg.panel >= mg.num_panels
       THEN mg' = [mg EXCEPT !.pc = "finish"]
       ELSE LET axs == NewAxes(mg.panel, FALSE)
                new == IF mg.panel > 0
                       THEN axs
                       ELSE [axs EXCEPT !.title = "Meteogram for site on date"]
            IN  mg' = [mg EXCEPT
                         !.fig = Append(mg.fig, new),
                         !.ax = Len(mg.fig) + 1,
                         !.panel_twinned = FALSE,
                         !.var_min = <<>>,
                         !.var_max = <<>>,
                         !.idx = 1,
                         !.pc = IF mg.panel \in DOMAIN mg.layout
                                THEN "var" ELSE "raised",
                         !.err = IF mg.panel \in DOMAIN mg.layout
                                 THEN "" ELSE "KeyError"]
    /\ UNCHANGED MgFrame

\* the style dictionary styles.get(varname, dict()) refers to
StyleOf(varname) ==
    IF varname \notin DOMAIN mg.styles THEN EmptyDict
    ELSE IF mg.styles[varname] = "caller" THEN mg.caller_styles[varname]
    ELSE mg.own_styles[varname]

\* lines 203-209: varname is None
MgTwin ==
    mg' = [mg EXCEPT
             !.fig = Append([mg.fig EXCEPT
                               ![mg.ax].datalim = mg.var_min \o mg.var_max],
                            NewAxes(mg.panel, TRUE)),
             !.ax = Len(mg.fig) + 1,
             !.panel_twinned = TRUE,
             !.var_min = <<>>,
             !.var_max = <<>>,
             !.idx = mg.idx + 1]

\* lines 211-252: a variable is plotted on ax and the y-axis of ax set up
MgPlot(varname) ==
    LET style == StyleOf(varname)
        lims == Get(mg.limits, varname, <<"None", "None">>)
        var_max == Append(mg.var_max, <<"max", varname>>)
        var_min == Append(mg.var_min, <<"min", varname>>)
        fill == "fill" \in DOMAIN style /\ style["fill"] = "True"
        popped == Without(style, "fill")
        drawn == IF fill
                 THEN [var |-> varname, kind |-> "fill_between",
                       lower |-> IF lims[1] = "None" THEN "-500" ELSE lims[1],
                       style |-> popped]
                 ELSE [var |-> varname, kind |-> "plot", lower |-> "",
                       style |-> popped]
        ax1 == [mg.fig[mg.ax] EXCEPT
                  !.plots = Append(@, drawn),
                  !.datalim = IF fill THEN var_min \o var_max ELSE @]
        other == SubSeq(lims, 3, Len(lims))
        unbound == Len(lims) > 2 /\ Len(other) = 1 /\ mg.ticks = "unbound"
        ticks == IF Len(lims) > 2 /\ Len(other) # 1 THEN other[1] ELSE mg.ticks
        ax2 == IF Len(lims) <= 2 THEN ax1
               ELSE IF Len(other) = 1 THEN [ax1 EXCEPT !.yticks = ticks]
               ELSE [ax1 EXCEPT !.yticks = ticks, !.yticklabels = other[2]]
        ax3 == [ax2 EXCEPT
                  !.ylim = SubSeq(lims, 1, 2),
                  !.ylabel = <<varname, Get(default_units, varname, "")>>]
        stored == [mg EXCEPT
                     !.caller_styles =
                         IF varname \in DOMAIN mg.styles
                            /\ mg.styles[varname] = "caller"
                         THEN [@ EXCEPT ![varname] = popped] ELSE @,
                     !.own_styles =
                         IF varname \in DOMAIN mg.styles
                            /\ mg.styles[varname] = "own"
                         THEN [@ EXCEPT ![varname] = popped] ELSE @,
                     !.var_max = var_max,
                     !.var_min = var_min]
    IN  IF unbound
        THEN mg' = [stored EXCEPT !.fig[mg.ax] = ax1, !.pc = "raised",
                                  !.err = "UnboundLocalError"]
        ELSE mg' = [stored EXCEPT !.fig[mg.ax] = ax3, !.ticks = ticks,
                                  !.idx = mg.idx + 1]

\* lines 202-252: the next variable of for varname in layout[panel]
MgVar ==
    /\ mg.pc = "var"
    /\ IF mg.idx > Len(mg.layout[mg.panel])
       THEN mg' = [mg EXCEPT !.pc = "endpanel"]
       ELSE IF mg.layout[mg.panel][mg.idx] = "None"
       THEN MgTwin
       ELSE MgPlot(mg.layout[mg.panel][mg.idx])
    /\ UNCHANGED MgFrame

\* lines 254-260: the x-axis of ax, and ax joins the list axes
MgEndPanel ==
    /\ mg.pc = "endpanel"
    /\ mg' = [mg EXCEPT
                !.fig[mg.ax] =
                    [@ EXCEPT !.locator = mg.ticker,
                              !.formatter = "%H",
                              !.ticks_position =
                                  IF mg.panel_twinned THEN @ ELSE "both"],
                !.axes = Append(@, mg.ax),
                !.panel = @ + 1,
                !.pc = "panel"]
    /\ UNCHANGED MgFrame

\* lines 261-264: the x-axis label and limits of the last ax; return axes
MgFinish ==
    /\ mg.pc = "finish"
    /\ IF mg.ax = 0
       THEN mg' = [mg EXCEPT !.pc = "raised", !.err = "UnboundLocalError"]
       ELSE mg' = [mg EXCEPT
                     !.fig[mg.ax] = [@ EXCEPT !.xlabel = "Hour (UTC)",
                                              !.xlim = mg.time_range],
                     !.ret = mg.axes,
                     !.pc = "done"]
    /\ UNCHANGED MgFrame

NextMg ==
    \/ MgSetup
    \/ MgPanel
    \/ MgVar
    \/ MgEndPanel
    \/ MgFinish

SpecMg == InitMg /\ [][NextMg]_vars

----------------------------------------------------------------------------
(* plot_skewt of metpy/vis/skewt.py: the moist adiabats *)

\* number of points of np.linspace(1000, 50) (numpy's default is 50)
PlotLevels == 3

\* np.arange(start, stop, step) for integers, step > 0
Arange(start, stop, step) ==
    [i \in 1..((stop - start + step - 1) \div step) |->
        FromInt(start + (i - 1) * step)]

\* np.linspace(start, stop, num): start + i * step, the last point set to stop
Linspace(start, stop, num) ==
    CHOOSE y \in {[i \in 1..num |->
                     IF i = num THEN stop
                     ELSE FAdd(start, FMul(FromInt(i - 1), step))] :
                  step \in {FDiv(FSub(stop, start), FromInt(num - 1))}} : TRUE

\* the frame of plot_skewt(p, h, T, Td, fig, ax) at entry
NewPlot(fig, ax) ==
    [pc |-> "start", fig_arg |-> fig, ax_arg |-> ax, fig |-> fig, ax |-> ax,
     xticks |-> <<>>, P |-> <<>>, P1000 |-> <<>>, adiabat_Ts |-> <<>>,
     n |-> 0, T |-> <<>>, tmpT |-> <<>>, calls |-> <<>>,
     moist_adiabats |-> <<>>]

InitPlot ==
    /\ pc = "idle"
    /\ Tref = Zero
    /\ P = <<>>
    /\ T = <<>>
    /\ uP = <<>>
    /\ dP = <<>>
    /\ n = 0
    /\ ret = <<>>
    /\ err = ""
    /\ Pin = <<>>
    /\ atP = <<>>
    /\ writes = <<>>
    /\ reads = <<>>
    /\ allocs = 0
    /\ steps = 0
    /\ evals = 0
    /\ sing = FALSE
    /\ nonfin = 0
    /\ prev = NoResult
    /\ LapseOff
    /\ frames = <<>>
    /\ heap = <<>>
    /\ wc = [pc |-> "off"]
    /\ gr = [pc |-> "off"]
    /\ mg = [pc |-> "off"]
    /\ sk \in {NewPlot(f, a) : f \in {"None", "fig"}, a \in {"None", "ax"}}

\* what plot_skewt itself leaves alone
PlotFrame == <<lapseVars, frames, heap, wc, gr, mg>>

\* lines 352-412: the figure and axes, the ticks (T0 = ax.get_xticks()), P,
\* P1000, the reference temperatures of the moist adiabats and the array T of
\* their curves
PlotSetup ==
    /\ sk.pc = "start"
    /\ \E ticks \in {Arange(-80, 45, 10)} :
       \E DT \in {FSub(ticks[2], ticks[1])} :
       \E Ts \in {ticks \o [i \in 1..2 |->
                           FAdd(ticks[Len(ticks)], FMul(FromInt(i), DT))]},
          Pr \in {<<Flt(1050, 0)>>
                     \o Linspace(Flt(1000, 0), Flt(50, 0), PlotLevels)} :
          sk' = [sk EXCEPT
                   !.pc = "loop",
                   !.fig = IF sk.fig_arg = "None" THEN "figure 1" ELSE @,
                   !.ax = IF sk.ax_arg = "None" THEN "subplot 111" ELSE @,
                   !.xticks = ticks,
                   !.P = Pr,
                   !.P1000 = <<Flt(1001, 0), Flt(1000, 0)>>,
                   !.adiabat_Ts = Ts,
                   !.T = [r \in 1..Len(Ts) |-> [c \in 1..Len(Pr) |-> Zero]],
                   !.n = 0]
    /\ UNCHANGED <<callVars, prev, PlotFrame>>

\* line 413, then the call of line 414:
\* calc_moist_adiabat(adiabat_Ts[n], P[0,1:])
PlotCallUp ==
    /\ sk.pc = "loop"
    /\ sk.n < Len(sk.adiabat_Ts)
    /\ Enter(sk.adiabat_Ts[sk.n + 1], Tail(sk.P))
    /\ sk' = [sk EXCEPT
                !.pc = "up",
                !.calls = Append(@, <<sk.adiabat_Ts[sk.n + 1], Tail(sk.P)>>)]
    /\ UNCHANGED PlotFrame

\* PlotTakeUp that takes the slope below 1000 hPa from the first layer of the
\* profile it has, without a second call
PlotTakeUpOnly ==
    /\ sk.pc = "up"
    /\ pc = "done"
    /\ sk' = [sk EXCEPT
                !.pc = "loop",
                !.T[sk.n + 1] =
                    <<FAdd(ret[1], FMul(FSub(ret[1], ret[2]), Flt(50, 0)))>>
                        \o ret,
                !.n = @ + 1]
    /\ UNCHANGED <<callVars, prev, PlotFrame>>

\* T[n,1:] = the array returned by the call of line 414, then the call of
\* line 415: calc_moist_adiabat(adiabat_Ts[n], P1000)
PlotTakeUp ==
    /\ sk.pc = "up"
    /\ pc = "done"
    /\ Enter(sk.adiabat_Ts[sk.n + 1], sk.P1000)
    /\ sk' = [sk EXCEPT
                !.pc = "down",
                !.T[sk.n + 1] = <<Zero>> \o ret,
                !.calls = Append(@, <<sk.adiabat_Ts[sk.n + 1], sk.P1000>>)]
    /\ UNCHANGED PlotFrame

\* tmpT = the array returned by the call of line 415, then line 416:
\* T[n,0] = T[n,1] + (tmpT[0]-tmpT[1]) * 50.0, and the next n
PlotTakeDown ==
    /\ sk.pc = "down"
    /\ pc = "done"
    /\ sk' = [sk EXCEPT
                !.pc = "loop",
                !.tmpT = ret,
                !.T[sk.n + 1][1] =
                    FAdd(sk.T[sk.n + 1][2],
                         FMul(FSub(ret[1], ret[2]), Flt(50, 0))),
                !.n = @ + 1]
    /\ UNCHANGED <<callVars, prev, PlotFrame>>

\* lines 418-432: one line per row of T in the collection moist_adiabats
PlotFinish ==
    /\ sk.pc = "loop"
    /\ sk.n = Len(sk.adiabat_Ts)
    /\ sk' = [sk EXCEPT !.pc = "returned", !.moist_adiabats = sk.T]
    /\ UNCHANGED <<callVars, prev, PlotFrame>>

NextPlot ==
    \/ PlotSetup
    \/ PlotCallUp
    \/ PlotTakeUp
    \/ PlotTakeDown
    \/ PlotFinish
    \/ Alloc
    \/ Seed
    \/ Direction
    \/ Diff
    \/ Predictor
    \/ Corrector
    \/ Return

SpecPlot == InitPlot /\ [][NextPlot]_vars

----------------------------------------------------------------------------
(* the claims *)

\* every pressure of the column lies in 50..1050 hPa
PressuresInRange(s) ==
    \A i \in 1..Len(s) : FLe(Flt(50, 0), s[i]) /\ FLe(s[i], Flt(1050, 0))

\* the reference temperature lies in -60..40 deg C
TrefInRange == FLe(Flt(-60, 0), Tref) /\ FLe(Tref, Flt(40, 0))

\* every level's pressure is above the saturation vapor pressure of the
\* temperature returned for it
AboveSaturation ==
    \A i \in 1..Len(ret) : FLt(wv_sat(ret[i]), Pin[i])

\* C1: when calc_moist_adiabat returns for a strictly monotonic column, element
\* i of the profile was computed for the pressure P[i] of the caller's column.
C1_AlignedWithCaller ==
    (pc = "done" /\ StrictlyMonotonic(Pin))
        => \A i \in 1..Len(ret) : atP[i] = Pin[i]

\* C2: element 0 of the returned array equals Tref, whichever direction P is
\* ordered in and however many layer steps ran.
C2_FirstIsTref ==
    pc = "done" => (Len(ret) >= 1 /\ FEq(ret[1], Tref))

\* a call on an increasing column of three levels returned after two steps
C2_Witness ==
    /\ pc = "done"
    /\ Len(Pin) = 3
    /\ StrictlyIncreasing(Pin)
    /\ uP = Reverse(Pin)
    /\ steps = 2
    /\ FEq(ret[1], Tref)
    /\ ~FEq(ret[3], Tref)

\* C3: the profiles of a strictly monotonic column and of the reversed column
\* hold the same temperature at each physical level: r[i] = r'[N-1-i].
C3_SameAtEachLevel ==
    (/\ pc = "done"
     /\ prev.set
     /\ prev.Tref = Tref
     /\ StrictlyMonotonic(Pin)
     /\ prev.P = Reverse(Pin))
        => \A i \in 1..Len(ret) : ret[i] = prev.ret[Len(ret) + 1 - i]

C5_SingularIsSignalled ==
    pc = "done" => ~sing

\* C6: when a density, thickness or temperature of layer n is non-finite the
\* integrator stops at that layer and returns no profile.
C6_NonFiniteStops ==
    nonfin # 0 => (pc # "done" /\ n = nonfin)

\* C7: for a strictly decreasing column within 50..1050 hPa and Tref within
\* -60..40 deg C, every level's pressure being above its saturation vapor
\* pressure, the returned profile is non-increasing.
C7_NonIncreasing ==
    (/\ pc = "done"
     /\ StrictlyDecreasing(Pin)
     /\ PressuresInRange(Pin)
     /\ TrefInRange
     /\ AboveSaturation)
        => \A i \in 2..Len(ret) : FLe(ret[i], ret[i - 1])

\* a profile of three levels that cools at every step was returned for such a
\* column
C7_Witness ==
    /\ pc = "done"
    /\ Len(Pin) = 3
    /\ StrictlyDecreasing(Pin)
    /\ PressuresInRange(Pin)
    /\ TrefInRange
    /\ AboveSaturation
    /\ FLt(ret[2], ret[1])
    /\ FLt(ret[3], ret[2])

\* C8: for w >= 0, T + 273.15 > 0 and 2.5e6 - 2500*T > 0, moist_lapserate(w, T)
\* is strictly positive.
C8_Positive ==
    (/\ lpc = "evaluated"
     /\ FLe(Zero, lw)
     /\ FLt(Zero, FAdd(lT, T0))
     /\ FLt(Zero, Lv_func(lT)))
        => FLt(Zero, lGamma)

\* the lapse rate of a moist parcel was evaluated: positive, below the dry rate
C8_Witness ==
    /\ lpc = "evaluated"
    /\ FLt(Zero, lw)
    /\ lT = Flt(20, 0)
    /\ FLt(Zero, lGamma)
    /\ FLt(lGamma, FDiv(g, Cp))

\* C9: for w = 0 and T + 273.15 > 0, moist_lapserate(0, T) equals g/Cp.
C9_DryRate ==
    (lpc = "evaluated" /\ FEq(lw, Zero) /\ FLt(Zero, FAdd(lT, T0)))
        => FEq(lGamma, FDiv(g, Cp))

\* the lapse rate of a dry parcel at 40 deg C was evaluated
C9_Witness ==
    /\ lpc = "evaluated"
    /\ lw = Zero
    /\ lT = Flt(40, 0)
    /\ lGamma = FDiv(Flt(981, -2), Flt(1004, 0))

\* C10: a call leaves the caller's column as it was, and returns what an
\* earlier call with equal arguments returned, whatever was called between.
C10_Transparent ==
    /\ P = Pin
    /\ (pc = "done" /\ prev.set /\ prev.Tref = Tref /\ prev.P = Pin)
          => ret = prev.ret

\* a call returned the profile an earlier call with the same arguments had
\* returned, another call having been made between the two
C10_Witness ==
    /\ pc = "done"
    /\ prev.set
    /\ prev.age = 2
    /\ prev.Tref = Tref
    /\ prev.P = Pin
    /\ StrictlyIncreasing(Pin)
    /\ steps = 1
    /\ ret = prev.ret

\* C11: whatever the interleaving of the steps of two invocations, each returns
\* the profile it returns when run alone, in a buffer of its own that stays as
\* returned while the other invocation goes on.
C11_Independent ==
    \A i \in 1..2 :
        frames[i].pc = "done" =>
            /\ heap[frames[i].ret] = frames[i].alone
            /\ \A j \in 1..2 : j # i => frames[j].T # frames[i].ret

\* both invocations returned, their steps having alternated on the one column
\* they were both given
C11_Witness ==
    /\ Len(frames) = 2
    /\ frames[1].pc = "done"
    /\ frames[2].pc = "done"
    /\ frames[1].P = frames[2].P
    /\ frames[1].Tref # frames[2].Tref
    /\ frames[1].T > frames[2].T
    /\ heap[frames[1].ret] # heap[frames[2].ret]

\* C12: a call with a column of at least 2 levels, in either order, does not
\* raise, and the array it returns has as many elements as the column.
C12_SameLength ==
    /\ Len(Pin) >= 2 => pc # "raised"
    /\ pc = "done" => (Len(Pin) >= 2 /\ Len(ret) = Len(Pin))

\* a profile of three elements was returned for an increasing column of three
\* levels
C12_Witness ==
    /\ pc = "done"
    /\ StrictlyIncreasing(Pin)
    /\ Len(Pin) = 3
    /\ Len(ret) = 3
    /\ steps = 2

\* the value of a float in units of 0.0001, an integer for the values drawn
TenThousandths(x) ==
    IF x.e + 4 >= 0 THEN x.m * Pow10(x.e + 4) ELSE x.m \div Pow10(0 - (x.e + 4))

\* whether element i of a result of windchill is masked
ElementMasked(r, i) == r.masked /\ r.mask[i]

\* whether the wind chill of an element is undefined: the temperature above
\* 10 C (50 F), or the speed at 10 m at or below 4.828 km/h (3 mph), the speed
\* given being in m/s (mph) and 1.5 times lower when measured at face level;
\* in exact integer arithmetic on multiples of 0.0001
Undefined(temp, speed, metric, face) ==
    LET f == IF face THEN 15 ELSE 10
    IN  IF metric
        THEN \/ TenThousandths(temp) > 100000
             \/ TenThousandths(speed) * f * 36 <= 4828000
        ELSE \/ TenThousandths(temp) > 500000
             \/ TenThousandths(speed) * f <= 300000

\* C13: with mask_undefined true windchill masks exactly the elements whose
\* temperature is above the limit or whose 10 m wind speed is at or below the
\* limit; with mask_undefined false it masks none.
C13_MaskIsUndefined ==
    wc.pc = "returned" =>
        \A i \in 1..Len(wc.temp) :
            ElementMasked(wc.wcti, i)
                <=> (/\ wc.mask_undefined
                     /\ Undefined(wc.temp[i], wc.speed[i], wc.metric,
                                  wc.face_level_winds))

\* windchill returned a masked array of two elements, the first masked for a
\* face-level speed of 2 mph (3 mph at 10 m, the limit), the second not masked
C13_Witness ==
    /\ wc.pc = "returned"
    /\ wc.mask_undefined
    /\ ~wc.metric
    /\ wc.face_level_winds
    /\ Len(wc.temp) = 2
    /\ wc.speed[1] = Flt(2, 0)
    /\ wc.temp[1] = Flt(50, 0)
    /\ ElementMasked(wc.wcti, 1)
    /\ ~ElementMasked(wc.wcti, 2)

\* C14: convergence_vorticity(u, v, dx, dy) is the pair of
\* h_convergence(u, v, dx, dy) and v_vorticity(u, v, dx, dy), grid point by
\* grid point.
C14_PairOfSeparate ==
    (gr.pc = "ready" /\ gr.cv # <<>>) =>
        /\ gr.hc # <<>> =>
              \A i \in 1..Len(gr.u), j \in 1..Ny :
                  gr.cv[1][i][j] = gr.hc[i][j]
        /\ gr.vv # <<>> =>
              \A i \in 1..Len(gr.u), j \in 1..Ny :
                  gr.cv[2][i][j] = gr.vv[i][j]

\* the three functions returned for a grid of three points along x on which
\* the convergence and the vorticity differ and neither is uniform
C14_Witness ==
    /\ gr.pc = "ready"
    /\ gr.cv # <<>>
    /\ gr.hc # <<>>
    /\ gr.vv # <<>>
    /\ Len(gr.u) = 3
    /\ gr.cv[1] = gr.hc
    /\ gr.cv[2] = gr.vv
    /\ gr.hc # gr.vv
    /\ gr.hc[1] # gr.hc[2]
    /\ gr.vv[1] # gr.vv[3]
    /\ \E i \in 1..3, j \in 1..Ny : gr.vv[i][j] # FNeg(gr.vv[i][j])

\* C15: when meteogram is called without a ticker, the locator of the x-axis
\* of every axes it returns is an AutoDateLocator, whatever time_range is,
\* omitted included.
C15_AutoDateLocator ==
    (mg.pc = "done" /\ mg.ticker_arg = "None") =>
        \A i \in 1..Len(mg.ret) :
            mg.fig[mg.ret[i]].locator = "AutoDateLocator"

\* the variable meteogram has just plotted (the one before position idx of
\* the panel's list), or is plotting when it raises
PlottedVar ==
    mg.layout[mg.panel][IF mg.pc = "raised" THEN mg.idx ELSE mg.idx - 1]

\* the limits entry of a variable
LimitsOf(varname) == Get(mg.limits, varname, <<"None", "None">>)

\* C16: a variable whose limits entry has exactly three items is plotted
\* without error, and the y-axis of its axes then has the first two items as
\* limits and the third item as ticks.
C16_ThreeItemLimits ==
    /\ (/\ mg.pc = "raised"
        /\ mg.panel \in DOMAIN mg.layout
        /\ mg.idx <= Len(mg.layout[mg.panel]))
          => Len(LimitsOf(PlottedVar)) # 3
    /\ (/\ mg.pc = "var"
        /\ mg.idx > 1
        /\ PlottedVar # "None"
        /\ Len(LimitsOf(PlottedVar)) = 3)
          => /\ mg.fig[mg.ax].ylim = SubSeq(LimitsOf(PlottedVar), 1, 2)
             /\ mg.fig[mg.ax].yticks = LimitsOf(PlottedVar)[3]

\* C17: the list meteogram returns holds every axes object created during the
\* call, the primary axes of a panel with a twin included.
C17_AllAxesReturned ==
    mg.pc = "done" =>
        \A a \in 1..Len(mg.fig) : \E i \in 1..Len(mg.ret) : mg.ret[i] = a

\* Tb - Gamma(w(Tc, Pl), Tc) * Dz(Tc, Pl, dp): the temperature at the top of a
\* layer of thickness dp whose bottom is at Tb, the mixing ratio, the lapse
\* rate and the thickness in metres taken at the temperature Tc and the
\* pressure Pl
StepValue(Tb, Tc, Pl, dp) ==
    CHOOSE r \in
      {FSub(Tb, FMul(moist_lapserate(w, Tc),
                     Thickness(dp, Density(Pl, VirtualTemp(Tc, w))))) :
         w \in {MixingRatio(wv_sat(Tc), Pl)}} : TRUE

\* C18: every element n >= 1 of the returned profile is the corrector value
\* T[n-1] - Gamma(Tbar) * Dz(Pbar) with Tbar = (T[n-1] + Tpred)/2,
\* Pbar = (uP[n-1] + uP[n])/2, Tpred the forward-Euler value from level n-1,
\* and the layer's dP[n-1] = uP[n-1] - uP[n] in both.
C18_CorrectorValue ==
    pc = "done" =>
        \A k \in 1..(Len(ret) - 1) :
            /\ dP[k] = FSub(uP[k], uP[k + 1])
            /\ \E Tpred \in {StepValue(ret[k], ret[k], uP[k], dP[k])} :
                 \E Tbar \in {FMul(Flt(5, -1), FAdd(ret[k], Tpred))},
                    Pbar \in {FMul(Flt(5, -1), FAdd(uP[k], uP[k + 1]))} :
                      ret[k + 1] = StepValue(ret[k], Tbar, Pbar, dP[k])

\* a profile of three levels was returned whose elements 1 and 2 both differ
\* from the forward-Euler values
C18_Witness ==
    /\ pc = "done"
    /\ Len(ret) = 3
    /\ steps = 2
    /\ StrictlyDecreasing(Pin)
    /\ \A k \in 1..2 :
          /\ IsFinite(ret[k + 1])
          /\ ret[k + 1] # StepValue(ret[k], ret[k], uP[k], dP[k])

\* element i (from 1) of T has its final value: T[0] once it is seeded, T[k]
\* once layer step k has finished
Settled(i) == (i = 1 /\ writes # <<>>) \/ (2 <= i /\ i <= steps + 1)

\* C19: the profile is filled in a single forward pass: no step changes an
\* element that is settled, the indices written never decrease and go up by
\* one at most (0, then each level n twice, by the predictor and the corrector
\* of step n), and step n reads only T[n-1] and T[n].
C19_SingleForwardPass ==
    [][/\ \A i \in 1..Len(T) : Settled(i) => (Len(T') = Len(T) /\ T'[i] = T[i])
       /\ \A j \in 1..Len(writes') :
             /\ writes'[j] \in (IF j = 1 THEN {0}
                                ELSE {writes'[j - 1], writes'[j - 1] + 1})
             /\ Cardinality({k \in 1..Len(writes') : writes'[k] = writes'[j]})
                   <= (IF writes'[j] = 0 THEN 1 ELSE 2)
       /\ \A j \in 1..Len(reads') :
             reads'[j][2] \in {reads'[j][1] - 1, reads'[j][1]}
       /\ (steps' # steps) => writes'[Len(writes')] = steps']_vars

\* a call on three levels returned after writing T[0], then T[1] twice, then
\* T[2] twice
C19_Witness ==
    /\ pc = "done"
    /\ steps = 2
    /\ writes = <<0, 1, 1, 2, 2>>
    /\ reads = << <<1, 0>>, <<1, 0>>, <<1, 1>>, <<2, 1>>, <<2, 1>>, <<2, 2>> >>
    /\ ret[2] # ret[1]
    /\ ret[3] # ret[2]

\* C20: for a strictly monotonic column of at least 2 levels, increasing or
\* decreasing, the internal column uP is strictly decreasing and every layer
\* thickness dP[n-1] = uP[n-1] - uP[n] is strictly positive.
C20_HighToLow ==
    (Len(Pin) >= 2 /\ StrictlyMonotonic(Pin)) =>
        /\ pc \in {"diff", "pred", "corr", "ret", "done"} =>
              (Len(uP) = Len(Pin) /\ StrictlyDecreasing(uP))
        /\ pc \in {"pred", "corr", "ret", "done"} =>
              /\ Len(dP) = Len(Pin) - 1
              /\ \A k \in 1..Len(dP) :
                    dP[k] = FSub(uP[k], uP[k + 1]) /\ FLt(Zero, dP[k])

\* a call on an increasing column of three levels returned, having integrated
\* the reversed column over two layers of positive thickness
C20_Witness ==
    /\ pc = "done"
    /\ Len(Pin) = 3
    /\ StrictlyIncreasing(Pin)
    /\ uP = Reverse(Pin)
    /\ steps = 2
    /\ FLt(Zero, dP[1])
    /\ FLt(Zero, dP[2])

\* the highest pressure of a column
HighestPressure(s) ==
    CHOOSE x \in {s[i] : i \in 1..Len(s)} :
        \A i \in 1..Len(s) : FLe(s[i], x)

\* C21: the level Tref is used for. When the call returns, element 0 of the
\* profile holds Tref and was integrated from at the pressure of index 0 of the
\* internal column: for an increasing column that is the caller's last element
\* P[N-1], the highest pressure, and not P[0]; for a decreasing column it is
\* P[0].
C21_TrefAtInternalFirst ==
    pc = "done" =>
        /\ FEq(ret[1], Tref)
        /\ atP[1] = uP[1]
        /\ StrictlyIncreasing(Pin) =>
              /\ atP[1] = Pin[Len(Pin)]
              /\ atP[1] # Pin[1]
              /\ atP[1] = HighestPressure(Pin)
        /\ StrictlyDecreasing(Pin) =>
              /\ atP[1] = Pin[1]
              /\ atP[1] = HighestPressure(Pin)

\* a call on an increasing column of three levels returned: Tref was taken as
\* the temperature of the caller's last level, and the first layer cooled
\* from it
C21_Witness ==
    /\ pc = "done"
    /\ Len(Pin) = 3
    /\ StrictlyIncreasing(Pin)
    /\ FEq(ret[1], Tref)
    /\ atP[1] = Pin[3]
    /\ atP[2] = Pin[2]
    /\ FLt(ret[2], ret[1])

\* the index each write of the loop goes to when layers 1..k are taken in
\* order, each written by its predictor and then by its corrector (the loop's
\* writes follow the write of T[0])
InOrder(k) == [j \in 1..(2 * k) |-> (j + 1) \div 2]

\* the counts of a call in progress: steps completed, moist_lapserate
\* evaluations made and layers written, at each position of the loop
StepCount ==
    /\ steps <= Len(Pin) - 1 \/ Len(Pin) < 2
    /\ pc = "pred" => (n = steps + 1 /\ evals = 2 * steps)
    /\ pc = "corr" => (n = steps + 1 /\ evals = 2 * steps + 1)
    /\ pc \in {"ret", "done"} =>
          /\ steps = Len(Pin) - 1
          /\ evals = 2 * (Len(Pin) - 1)
          /\ writes = <<0>> \o InOrder(Len(Pin) - 1)

\* C22: a call on a column of N >= 2 levels returns, after exactly N-1 layer
\* steps taken in the order n = 1, .., N-1 and two evaluations of
\* moist_lapserate per step, whatever the pressures and temperatures are.
C22_FixedStepCount ==
    /\ [](StepCount)
    /\ (pc = "alloc" /\ Len(P) >= 2) ~> (pc = "done")

\* a call on a column of three levels that is not monotonic and whose profile
\* holds nan returned after 2 steps and 4 evaluations
C22_Witness ==
    /\ pc = "done"
    /\ Len(Pin) = 3
    /\ ~StrictlyMonotonic(Pin)
    /\ nonfin # 0
    /\ steps = 2
    /\ evals = 4
    /\ writes = <<0, 1, 1, 2, 2>>

\* C23 as stated: when plot_skewt returns, calc_moist_adiabat was called once
\* per reference temperature of the moist adiabats (once per curve drawn).
C23_OncePerTemperature ==
    sk.pc = "returned" =>
        /\ Len(sk.moist_adiabats) = Len(sk.adiabat_Ts)
        /\ Len(sk.calls) = Len(sk.adiabat_Ts)

\* C23 amended: calc_moist_adiabat is called twice per reference temperature,
\* first on the column P[0,1:] and then on P1000, both with that temperature
\* as Tref; a plot of k moist adiabats makes 2k calls.
C23_TwicePerTemperature ==
    /\ sk.pc \in {"loop", "returned"} => Len(sk.calls) = 2 * sk.n
    /\ sk.pc = "up" => Len(sk.calls) = 2 * sk.n + 1
    /\ sk.pc = "down" => Len(sk.calls) = 2 * sk.n + 2
    /\ sk.pc \in {"loop", "up", "down", "returned"} =>
          \A k \in 1..Len(sk.calls) :
              /\ sk.calls[k][1] = sk.adiabat_Ts[(k + 1) \div 2]
              /\ sk.calls[k][2] = IF k % 2 = 1 THEN Tail(sk.P) ELSE sk.P1000
    /\ sk.pc = "returned" =>
          /\ Len(sk.moist_adiabats) = Len(sk.adiabat_Ts)
          /\ Len(sk.calls) = 2 * Len(sk.adiabat_Ts)

\* plot_skewt returned: 15 moist adiabats drawn with 30 calls
C23_Witness ==
    /\ sk.pc = "returned"
    /\ Len(sk.adiabat_Ts) = 15
    /\ Len(sk.moist_adiabats) = 15
    /\ Len(sk.calls) = 30
    /\ sk.calls[29] = <<Flt(60, 0), Tail(sk.P)>>
    /\ sk.calls[30] = <<Flt(60, 0), sk.P1000>>

\* the number of levels of the column s whose pressure is above x
LevelsAbove(s, x) == Cardinality({j \in 1..Len(s) : FLt(x, s[j])})

\* C24: the profile is in the internal order whatever order the caller gave:
\* element i belongs to the (i+1)-th highest pressure of a strictly monotonic
\* column, and the call on the reversed column returns the same array, index
\* for index.
C24_SameArrayEitherOrder ==
    (pc = "done" /\ StrictlyMonotonic(Pin)) =>
        /\ \A i \in 1..Len(ret) : LevelsAbove(Pin, atP[i]) = i - 1
        /\ (prev.set /\ prev.Tref = Tref /\ prev.P = Reverse(Pin))
              => ret = prev.ret

\* a call on an increasing column of three levels returned the array that the
\* call on the reversed column had returned, the temperature falling from
\* level to level
C24_Witness ==
    /\ pc = "done"
    /\ prev.set
    /\ prev.Tref = Tref
    /\ Len(Pin) = 3
    /\ StrictlyIncreasing(Pin)
    /\ prev.P = Reverse(Pin)
    /\ ret = prev.ret
    /\ atP = Reverse(Pin)
    /\ FLt(ret[2], ret[1])
    /\ FLt(ret[3], ret[2])

\* C25: meteogram leaves the caller's styles argument unchanged: when the call
\* has returned, every style dictionary passed in styles holds what it held
\* when the call was made, the key 'fill' included.
C25_StylesArgumentKept ==
    mg.pc = "done" => mg.caller_styles = mg.styles_arg

====
